---- MODULE Spec2Model ----
(***************************************************************************)
(* Battleship ("Morskoi boi") of src/src/main.rs as a state machine.       *)
(*                                                                         *)
(* The state is GameContext without its rendering and audio fields         *)
(* (display, width, height, sound_system, timer, game_over: none of them   *)
(* is read by the game rules).  The mouse position is folded into the      *)
(* mouse events: an event carries the grid cell get_grid_coordinates       *)
(* yields for it.  One action is one call of a Handler callback, except    *)
(* place_ships, whose retry loop is modelled one iteration per step.       *)
(* Time is counted in frame ticks, TicksPerUnit ticks to one time unit.    *)
(***************************************************************************)
EXTENDS Integers, Sequences, FiniteSets, TLC

GRID == 10
MOVE_DELAY == 1

\* ------------------------------------------------------------ bounds
\* Frame ticks per unit of time: a frame's time_elapsed is 1..TicksPerUnit ticks.
TicksPerUnit == 2
\* The random index of Tactics::Random is drawn below MaxRandom.
MaxRandom == 2
\* The random direction index of a fresh Scan is drawn below MaxRandomDir.
MaxRandomDir == 2
\* The player clicks one of the first MaxClick cells not yet shot at
\* (the enemy grid read column by column), or the cell just before them.
MaxClick == 1
\* In the opening random::<usize>() may also be MaxIndex-1.
MaxIndex == 11

VARIABLES
    start,            \* game.start.is_some()
    current_move,     \* "Player" | "Computer"
    player_field,     \* [Cells -> Cell]
    computer_field,   \* [Cells -> Cell]
    inventory,        \* <<n1, n2, n3, n4>>: ships of length L left to place
    length,           \* selected ship length
    dir,              \* selected direction
    enemy_ai,         \* [tactics, delay]; delay in ticks
    player_ships,
    computer_ships,
    winner,           \* "None" | "Player" | "Computer"
    pc,               \* where the program is: the event loop, inside place_ships, dead
    last_shot,        \* the latest shoot call and its result, or NoShot
    hc_call           \* a has_collision call and its result, or NoCall

vars == <<start, current_move, player_field, computer_field, inventory, length,
          dir, enemy_ai, player_ships, computer_ships, winner, pc, last_shot,
          hc_call>>

\* ------------------------------------------------------------ Dir
Dirs == {"Up", "Down", "Left", "Right"}

to_vec(d) ==
    CASE d = "Up" -> <<0, -1>>
      [] d = "Down" -> <<0, 1>>
      [] d = "Left" -> <<-1, 0>>
      [] d = "Right" -> <<1, 0>>

\* a turn that only ever goes back and forth
TurnBack(d) ==
    CASE d = "Up" -> "Down"
      [] d = "Right" -> "Left"
      [] d = "Down" -> "Up"
      [] d = "Left" -> "Right"

clockwise(d) ==
    CASE d = "Up" -> "Right"
      [] d = "Right" -> "Down"
      [] d = "Down" -> "Left"
      [] d = "Left" -> "Up"

counter_clockwise(d) ==
    CASE d = "Up" -> "Left"
      [] d = "Left" -> "Down"
      [] d = "Down" -> "Right"
      [] d = "Right" -> "Up"

opposite(d) ==
    CASE d = "Up" -> "Down"
      [] d = "Left" -> "Right"
      [] d = "Down" -> "Up"
      [] d = "Right" -> "Left"

\* random::<u8>() % 4 mapped to a direction (main.rs 474-480, 544-550)
RandomDir(n) ==
    CASE n = 0 -> "Up"
      [] n = 1 -> "Right"
      [] n = 2 -> "Down"
      [] n = 3 -> "Left"

\* ------------------------------------------------------------ Cell, Field
Water == [kind |-> "Water"]
Miss == [kind |-> "Miss"]
Ship(d, front, back, fire, destroyed) ==
    [kind |-> "Ship", dir |-> d, front |-> front, back |-> back,
     fire |-> fire, destroyed |-> destroyed]

Coords == 0..(GRID - 1)
Cells == Coords \X Coords

\* Field::new
NewField == [p \in Cells |-> Water]

\* the bounds test of checked_get, modify_all, has_collision, shoot
InGrid(x, y) == x >= 0 /\ y >= 0 /\ x < GRID /\ y < GRID

\* `as u8` of an isize
AsU8(n) == n % 256

\* the inner two loops of has_collision without the destroyed_only filter
BlockHasAnyShip(field, x, y, destroyed_only) ==
    \E ddx \in -1..1 : \E ddy \in -1..1 :
        /\ InGrid(x + ddx, y + ddy)
        /\ field[<<x + ddx, y + ddy>>].kind = "Ship"

\* the inner two loops of has_collision: a ship segment in the 3x3 block
\* around (x, y) that the destroyed_only filter does not skip
BlockHasShip(field, x, y, destroyed_only) ==
    \E ddx \in -1..1 : \E ddy \in -1..1 :
        /\ InGrid(x + ddx, y + ddy)
        /\ field[<<x + ddx, y + ddy>>].kind = "Ship"
        /\ ~(destroyed_only /\ ~field[<<x + ddx, y + ddy>>].destroyed)

\* the outer loop of has_collision from its i-th iteration on
RECURSIVE HasCollisionFrom(_, _, _, _, _, _, _)
HasCollisionFrom(field, x, y, len, d, destroyed_only, i) ==
    IF i >= len THEN FALSE
    ELSE LET cx == x + to_vec(d)[1] * i
             cy == y + to_vec(d)[2] * i
         IN  IF InGrid(cx, cy)
             THEN IF BlockHasShip(field, cx, cy, destroyed_only)
                  THEN TRUE
                  ELSE HasCollisionFrom(field, x, y, len, d, destroyed_only, i + 1)
             ELSE TRUE

\* a has_collision that looks at the run cells only, not around them
HasCollisionOnRun(field, x, y, len, d, destroyed_only) ==
    \E i \in 0..(len - 1) :
        \/ ~InGrid(x + to_vec(d)[1] * i, y + to_vec(d)[2] * i)
        \/ field[<<x + to_vec(d)[1] * i, y + to_vec(d)[2] * i>>].kind = "Ship"

has_collision(field, x, y, len, d, destroyed_only) ==
    HasCollisionFrom(field, x, y, len, d, destroyed_only, 0)

\* a placement that counts back from the far end and front from the start
PlaceShipSwapped(field, x, y, len, d) ==
    [p \in Cells |->
        IF \E i \in 0..(len - 1) :
              p = <<x + to_vec(d)[1] * i, y + to_vec(d)[2] * i>>
        THEN LET i == CHOOSE i \in 0..(len - 1) :
                        p = <<x + to_vec(d)[1] * i, y + to_vec(d)[2] * i>>
             IN  Ship(d, i, len - i - 1, FALSE, FALSE)
        ELSE field[p]]

\* the cells a placement writes: modify_all(x, y, 0, length, dir, ..) and the
\* loop of on_mouse_button; cells outside the grid are skipped
PlaceShip(field, x, y, len, d) ==
    [p \in Cells |->
        IF \E i \in 0..(len - 1) :
              p = <<x + to_vec(d)[1] * i, y + to_vec(d)[2] * i>>
        THEN LET i == CHOOSE i \in 0..(len - 1) :
                        p = <<x + to_vec(d)[1] * i, y + to_vec(d)[2] * i>>
             IN  Ship(d, len - i - 1, i, FALSE, FALSE)
        ELSE field[p]]

\* ------------------------------------------------------------ Field::draw
\* a draw that takes no notice of `hidden`
CellViewOpen(cell, hidden) ==
    IF cell.kind = "Water" THEN "nothing"
    ELSE IF cell.kind = "Miss" THEN "miss"
    ELSE IF cell.fire THEN (IF cell.destroyed THEN "destroyed" ELSE "hit")
    ELSE "ship"

\* what the loop over the cells draws in a cell: nothing, the "O" of a Miss,
\* the yellow rect of a hit segment, the red rect of a destroyed one, the
\* white rect of an unfired segment
CellView(cell, hidden) ==
    IF cell.kind = "Water" THEN "nothing"
    ELSE IF cell.kind = "Miss" THEN "miss"
    ELSE IF cell.fire THEN (IF cell.destroyed THEN "destroyed" ELSE "hit")
    ELSE IF ~hidden THEN "ship"
    ELSE "nothing"

\* the grid as draw_frame has Field::draw draw it
FieldView(field, hidden) == [p \in Cells |-> CellView(field[p], hidden)]

\* ------------------------------------------------------------ shoot
ShootResults == {"Miss", "Hit", "Destroy"}

\* the cells start..=end of the loops of shoot that lie in the grid
ShipRange(cell, x, y) ==
    {p \in Cells : \E i \in (-cell.back)..cell.front :
        p = <<x + to_vec(cell.dir)[1] * i, y + to_vec(cell.dir)[2] * i>>}

\* a first loop of shoot that never clears `destroy`
AllFiredAlways(field, range) == TRUE

\* first loop of shoot: no ship segment of the range is left unfired
AllFired(field, range) ==
    \A p \in range : field[p].kind = "Ship" => field[p].fire

\* a second loop that clears the fire flag of every segment but the bow
MarkDestroyedUnfired(field, range) ==
    [p \in Cells |->
        IF p \in range /\ field[p].kind = "Ship"
        THEN [field[p] EXCEPT !.destroyed = TRUE, !.fire = (field[p].front = 0)]
        ELSE field[p]]

\* a second loop that makes every segment of the sunk ship a ship of one
MarkDestroyedApart(field, range) ==
    [p \in Cells |->
        IF p \in range /\ field[p].kind = "Ship"
        THEN [field[p] EXCEPT !.destroyed = TRUE, !.front = 0, !.back = 0]
        ELSE field[p]]

\* second loop of shoot
MarkDestroyed(field, range) ==
    [p \in Cells |->
        IF p \in range /\ field[p].kind = "Ship"
        THEN [field[p] EXCEPT !.destroyed = TRUE]
        ELSE field[p]]

\* a turn that is handed to the same side
OtherSame(move) == move

Other(move) == IF move = "Player" THEN "Computer" ELSE "Player"

\* an arm `_ => ShootResult::Miss` that advances the turn
AlreadyShotFlips(enemy_field, move) ==
    [field |-> enemy_field,
     move |-> IF move = "Player" THEN "Computer" ELSE "Player",
     result |-> "Miss"]

\* the arm `_ => ShootResult::Miss` of shoot: the cell is Miss or a fired segment
AlreadyShot(enemy_field, move) ==
    [field |-> enemy_field, move |-> move, result |-> "Miss"]

\* a shoot that marks the water around a sunk ship as Miss
ShootAndRing(enemy_field, x, y, shooter, move) ==
    LET cell == enemy_field[<<x, y>>]
    IN  IF cell.kind = "Water"
        THEN [field |-> [enemy_field EXCEPT ![<<x, y>>] = Miss],
              move |-> IF shooter = "Player" THEN "Computer" ELSE "Player",
              result |-> "Miss"]
        ELSE IF cell.kind = "Ship" /\ ~cell.fire
        THEN LET fired == [enemy_field EXCEPT ![<<x, y>>].fire = TRUE]
                 range == ShipRange(cell, x, y)
                 destroy == \A p \in range : fired[p].kind = "Ship" => fired[p].fire
             IN  [field |-> IF destroy
                            THEN [p \in Cells |->
                                    IF p \in range
                                    THEN [fired[p] EXCEPT !.destroyed = TRUE]
                                    ELSE IF /\ fired[p].kind = "Water"
                                            /\ \E q \in range :
                                                  /\ p[1] - q[1] \in -1..1
                                                  /\ p[2] - q[2] \in -1..1
                                         THEN Miss
                                         ELSE fired[p]]
                            ELSE fired,
                  move |-> move,
                  result |-> IF destroy THEN "Destroy" ELSE "Hit"]
        ELSE [field |-> enemy_field, move |-> move, result |-> "Miss"]

\* shoot(x, y, shooter) on the shooter's enemy field, (x, y) in the grid:
\* the field and current_move it leaves, and its result
shoot(enemy_field, x, y, shooter, move) ==
    LET cell == enemy_field[<<x, y>>]
    IN  IF cell.kind = "Water"
        THEN [field |-> [enemy_field EXCEPT ![<<x, y>>] = Miss],
              move |-> Other(shooter),
              result |-> "Miss"]
        ELSE IF cell.kind = "Ship" /\ ~cell.fire
        THEN LET fired == [enemy_field EXCEPT ![<<x, y>>].fire = TRUE]
                 range == ShipRange(cell, x, y)
                 destroy == AllFired(fired, range)
             IN  [field |-> IF destroy THEN MarkDestroyed(fired, range) ELSE fired,
                  move |-> move,
                  result |-> IF destroy THEN "Destroy" ELSE "Hit"]
        ELSE AlreadyShot(enemy_field, move)

NoShot == [shooter |-> "None", x |-> 0, y |-> 0, result |-> "None"]
Shot(shooter, x, y, result) ==
    [shooter |-> shooter, x |-> x, y |-> y, result |-> result]

\* a Destroy arm that leaves the counter alone
ShipsKept(ships) == ships + 0

\* checked_sub(1) and the decrement that follows it (main.rs 523-528, 761-766)
ShipsAfterDestroy(ships) == IF ships >= 1 THEN ships - 1 ELSE ships
\* a win declared with one ship still afloat
WinsOneEarly(ships) == ships >= 1 /\ ships - 1 = 1
WinsAfterDestroy(ships) == ships >= 1 /\ ships - 1 = 0

\* ------------------------------------------------------------ update_ai
\* the cells in the order of the loops `for x in 0..GRID { for y in 0..GRID`
CellSeq == [i \in 1..(GRID * GRID) |-> <<(i - 1) \div GRID, (i - 1) % GRID>>]

\* a test that pushes the fired segments only
IsPointFired(field, p) ==
    /\ ~has_collision(field, p[1], p[2], 1, "Down", TRUE)
    /\ field[p].kind = "Ship" /\ field[p].fire

\* the test that pushes (x, y) to points
IsPoint(field, p) ==
    /\ ~has_collision(field, p[1], p[2], 1, "Down", TRUE)
    /\ \/ field[p].kind = "Water"
       \/ field[p].kind = "Ship" /\ ~field[p].fire

\* a list that skips the test of the cell itself
PointsWithShot(field) ==
    SelectSeq(CellSeq, LAMBDA p : ~has_collision(field, p[1], p[2], 1, "Down", TRUE))

Points(field) == SelectSeq(CellSeq, LAMBDA p : IsPoint(field, p))

Contains(points, p) == \E i \in DOMAIN points : points[i] = p

\* the test of the three probes of update_ai: (tx, ty) in the grid and in points
Probe(points, tx, ty) == InGrid(tx, ty) /\ Contains(points, <<tx, ty>>)

Random == [kind |-> "Random"]
Scan(pos, d) == [kind |-> "Scan", pos |-> pos, dir |-> d]
Line(start_pos, current_pos, d) ==
    [kind |-> "Line", start_pos |-> start_pos, current_pos |-> current_pos, dir |-> d]

\* A `loop` that turns d clockwise until (x, y) + d passes the probe: the
\* direction it leaves with, or "none" when after four turns (d is back where
\* it began, so the loop repeats for ever) none has passed.
RECURSIVE TurnUntilProbe(_, _, _, _, _)
TurnUntilProbe(points, x, y, d, n) ==
    IF n = 4 THEN "none"
    ELSE IF Probe(points, x + to_vec(d)[1], y + to_vec(d)[2]) THEN d
    ELSE TurnUntilProbe(points, x, y, clockwise(d), n + 1)

Step(pos, d) == <<pos[1] + to_vec(d)[1], pos[2] + to_vec(d)[2]>>
StepU8(pos, d) == <<AsU8(pos[1] + to_vec(d)[1]), AsU8(pos[2] + to_vec(d)[2])>>

\* The target selection loop (main.rs 428-450) for the random value r:
\* status "ok" with the target and the tactics it leaves, "panic" (remainder
\* by points.len() = 0) or "hang" (the Scan arm never breaks).
SelectTarget(tactics, points, r) ==
    IF tactics.kind = "Random"
    THEN IF Len(points) = 0
         THEN [status |-> "panic", target |-> <<0, 0>>, tactics |-> tactics]
         ELSE [status |-> "ok", target |-> points[(r % Len(points)) + 1],
               tactics |-> tactics]
    ELSE IF tactics.kind = "Scan"
    THEN LET d == TurnUntilProbe(points, tactics.pos[1], tactics.pos[2], tactics.dir, 0)
         IN  IF d = "none"
             THEN [status |-> "hang", target |-> <<0, 0>>, tactics |-> tactics]
             ELSE [status |-> "ok", target |-> Step(tactics.pos, d),
                   tactics |-> Scan(tactics.pos, d)]
    ELSE [status |-> "ok", target |-> tactics.current_pos, tactics |-> tactics]

\* a Scan arm that keeps its direction
MissScanKeeps(tactics) == tactics

\* the Scan arm of the Miss arm (main.rs 457-459)
MissScan(tactics) == Scan(tactics.pos, clockwise(tactics.dir))

\* a Line arm that restarts the line from the cell just missed
MissLineFromShot(tactics) ==
    Line(tactics.current_pos,
         StepU8(tactics.start_pos, opposite(tactics.dir)),
         opposite(tactics.dir))

\* the Line arm of the Miss arm (main.rs 460-467)
MissLine(tactics) ==
    Line(tactics.start_pos,
         StepU8(tactics.start_pos, opposite(tactics.dir)),
         opposite(tactics.dir))

\* the tactics after a Miss (main.rs 455-470)
AfterMiss(tactics) ==
    IF tactics.kind = "Scan" THEN MissScan(tactics)
    ELSE IF tactics.kind = "Line" THEN MissLine(tactics)
    ELSE tactics

\* the tactics after a Hit at (x, y) (main.rs 471-520), rd the random
\* direction index; Hang when the loop of the Scan arm never breaks
Hang == [kind |-> "hang"]

\* a Random arm that scans around the cell one column on
HitRandomBeside(x, y, rd) == Scan(<<AsU8(x + 1), AsU8(y)>>, RandomDir(rd % 4))

\* the Random arm of the Hit arm (main.rs 473-485)
HitRandom(x, y, rd) == Scan(<<AsU8(x), AsU8(y)>>, RandomDir(rd % 4))

\* a Scan arm that makes the hit cell the start of the line
HitScanFromHit(tactics, points, x, y) ==
    LET d == TurnUntilProbe(points, x, y, tactics.dir, 0)
    IN  IF d = "none" THEN Hang
        ELSE Line(<<AsU8(x), AsU8(y)>>, StepU8(<<x, y>>, d), d)

\* the Scan arm of the Hit arm (main.rs 486-502)
HitScan(tactics, points, x, y) ==
    LET d == TurnUntilProbe(points, x, y, tactics.dir, 0)
    IN  IF d = "none" THEN Hang
        ELSE Line(tactics.pos, StepU8(<<x, y>>, d), d)

\* a Line arm that goes on without the probe
HitLineOnward(tactics, points) ==
    Line(tactics.start_pos, StepU8(tactics.current_pos, tactics.dir), tactics.dir)

\* the Line arm of the Hit arm (main.rs 503-518)
HitLine(tactics, points) ==
    LET next == Step(tactics.current_pos, tactics.dir)
    IN  IF Probe(points, next[1], next[2])
        THEN Line(tactics.start_pos, StepU8(tactics.current_pos, tactics.dir),
                  tactics.dir)
        ELSE Line(tactics.start_pos,
                  StepU8(tactics.start_pos, opposite(tactics.dir)),
                  opposite(tactics.dir))

AfterHit(tactics, points, x, y, rd) ==
    IF tactics.kind = "Random" THEN HitRandom(x, y, rd)
    ELSE IF tactics.kind = "Scan" THEN HitScan(tactics, points, x, y)
    ELSE HitLine(tactics, points)

\* a Destroy arm that leaves the tactics alone
AfterDestroyKeeps(tactics) == tactics

\* the tactics after a Destroy (main.rs 522)
AfterDestroy(tactics) == Random

\* ------------------------------------------------------------ the environment
\* The values the model lets the inputs take.  A placement the user clicks, or
\* place_ships draws, is <<x, y, dir, length>>; has_collision and the inventory
\* decide, as in the code, whether it is carried out.

\* an inventory of one, one, two and one
StatedInventory == <<1, 1, 2, 1>>

StartInventory == <<4, 3, 2, 1>>

\* the ships the user places by hand, in the order the user places them
ManualOrder ==
    << <<0, 0, "Down", 4>>,
       <<2, 0, "Down", 3>>, <<0, 5, "Right", 3>>,
       <<0, 7, "Right", 2>>, <<0, 9, "Right", 2>>, <<3, 7, "Down", 2>>,
       <<4, 0, "Down", 1>>, <<4, 2, "Up", 1>>, <<4, 4, "Left", 1>>, <<5, 6, "Right", 1>> >>

PlayerSlots == {ManualOrder[i] : i \in DOMAIN ManualOrder}

\* how many leading ships of ManualOrder stand on the field
RECURSIVE PlacedPrefix(_, _)
PlacedPrefix(field, n) ==
    IF n < Len(ManualOrder)
       /\ field[<<ManualOrder[n + 1][1], ManualOrder[n + 1][2]>>].kind = "Ship"
    THEN PlacedPrefix(field, n + 1)
    ELSE n

\* Clicks the code must refuse, <<x, y, dir, length, after>>: the user tries
\* one once `after` ships of ManualOrder stand.  They leave the grid, or
\* overlap or touch (side by side, end to end, corner to corner) a ship
\* placed by then, or ask for a length the inventory has run out of.
BadClicks ==
    { <<0, 0, "Up", 4, 0>>, <<9, 9, "Down", 4, 0>>, <<7, 0, "Right", 4, 0>>,
      <<0, 3, "Down", 4, 1>>, <<5, 5, "Left", 4, 1>>,
      <<1, 0, "Down", 3, 1>>, <<1, 4, "Right", 3, 1>>, <<0, 6, "Up", 3, 1>>,
      <<0, 4, "Down", 2, 1>>, <<1, 5, "Up", 2, 1>>,
      <<1, 4, "Up", 1, 1>>, <<0, 2, "Left", 1, 1>>, <<3, 4, "Down", 1, 3>> }

\* the fleet the computer ends with
ComputerSlots ==
    { <<9, 0, "Up", 1>>, <<0, 9, "Left", 1>>, <<5, 5, "Down", 1>>, <<3, 6, "Right", 1>>,
      <<0, 0, "Right", 2>>, <<3, 3, "Up", 2>>, <<7, 7, "Left", 2>>,
      <<0, 2, "Down", 3>>, <<9, 5, "Up", 3>>,
      <<6, 9, "Right", 4>> }

\* Draws of place_ships that collide whenever they are drawn (the shorter
\* ships stand by then): out of the grid, overlapping, touching.
PlayerBadDraws ==
    { <<9, 9, "Down", 4>>, <<5, 2, "Down", 4>>, <<4, 5, "Right", 4>>,
      <<9, 9, "Right", 3>>, <<3, 3, "Right", 3>>, <<5, 1, "Right", 3>>,
      <<0, 0, "Left", 2>>, <<5, 3, "Right", 2>>, <<6, 6, "Up", 2>> }

ComputerBadDraws ==
    { <<0, 6, "Down", 4>>, <<5, 3, "Right", 4>>, <<8, 8, "Left", 4>>,
      <<9, 9, "Right", 3>>, <<4, 4, "Down", 3>>, <<6, 4, "Up", 3>>,
      <<0, 0, "Up", 2>>, <<1, 8, "Down", 2>>, <<4, 7, "Up", 2>> }

\* what random() yields in place_ships(who, ..) while it places `len`
RandomDraws(who, len) ==
    {s \in (IF who = "Player" THEN PlayerSlots \cup PlayerBadDraws
            ELSE ComputerSlots \cup ComputerBadDraws) : s[4] = len}

\* the cells the player shoots at, in the order the player clicks them: the
\* ships of the computer's fleet with cells of water in between, and a cell
\* of water after the last ship
PlayerShots ==
    << <<9, 0>>, <<5, 0>>,
       <<0, 0>>, <<1, 0>>, <<5, 1>>,
       <<0, 2>>, <<0, 3>>, <<0, 4>>, <<5, 2>>,
       <<6, 9>>, <<7, 9>>, <<8, 9>>, <<9, 9>>, <<5, 3>>,
       <<3, 3>>, <<3, 2>>,
       <<0, 9>>,
       <<9, 5>>, <<9, 4>>, <<9, 3>>, <<7, 0>>,
       <<5, 5>>,
       <<7, 7>>, <<6, 7>>,
       <<3, 6>>, <<7, 1>> >>

IsShot(cell) == cell.kind = "Miss" \/ (cell.kind = "Ship" /\ cell.fire)

\* how many leading cells of PlayerShots are shot already
RECURSIVE ShotPrefix(_, _)
ShotPrefix(field, n) ==
    IF n < Len(PlayerShots) /\ IsShot(field[PlayerShots[n + 1]])
    THEN ShotPrefix(field, n + 1)
    ELSE n

\* the cells the player may click next: the last one of the shot prefix
\* (a cell shot already) and the MaxClick cells after it
ClickTargets(field) ==
    LET n == ShotPrefix(field, 0)
    IN  {PlayerShots[i] : i \in {j \in (n..(n + MaxClick)) : j >= 1 /\ j <= Len(PlayerShots)}}

MouseButtons == {"Left", "Right"}
ElementStates == {"Pressed", "Released"}

\* ------------------------------------------------------------ GameContext::new
NoCall == [called |-> FALSE, x |-> 0, y |-> 0, length |-> 1, dir |-> "Down",
           destroyed_only |-> FALSE, result |-> FALSE]

\* the program waits for the next event; inside place_ships; dead
Events == [at |-> "events"]
Panicked == [at |-> "panicked"]
Hung == [at |-> "hung"]

Init ==
    /\ start = FALSE
    /\ current_move = "Player"
    /\ player_field = NewField
    /\ computer_field = NewField
    /\ inventory = StartInventory
    /\ length = 4
    /\ dir = "Down"
    /\ enemy_ai = [tactics |-> Random, delay |-> MOVE_DELAY * TicksPerUnit]
    /\ player_ships = 0
    /\ computer_ships = 0
    /\ winner = "None"
    /\ pc = Events
    /\ last_shot = NoShot
    /\ hc_call = NoCall

\* ------------------------------------------------------------ place_ships
\* place_ships(who, inv) is at the `while` of length len, called by handler
Placing(who, inv, len, handler) ==
    [at |-> "place_ships", who |-> who, inventory |-> inv, length |-> len,
     handler |-> handler]

\* the next length of `for length in 1..=4` whose while loop has work, or 5
RECURSIVE NextLength(_, _)
NextLength(inv, len) ==
    IF len > 4 THEN 5
    ELSE IF inv[len] > 0 THEN len
    ELSE NextLength(inv, len + 1)

\* the pc and start a handler leaves once its call place_ships(who, ..) has
\* returned (on_keyboard_input 815-817, on_mouse_button 750-751)
AfterPlaceShips(who, handler, st) ==
    IF handler = "key_R" /\ who = "Player"
    THEN [pc |-> Placing("Computer", StartInventory, 1, handler), start |-> st]
    ELSE IF handler = "key_R"
    THEN [pc |-> Events, start |-> TRUE]
    ELSE [pc |-> Events, start |-> st]

\* the pc and start after place_ships(who, ..) has run its loops as far as
\* the next draw
ContinuePlaceShips(who, inv, len, handler, st) ==
    IF NextLength(inv, len) <= 4
    THEN [pc |-> Placing(who, inv, NextLength(inv, len), handler), start |-> st]
    ELSE AfterPlaceShips(who, handler, st)

\* a placement that takes two ships from the inventory
DecrementTwice(inv, len) == [inv EXCEPT ![len] = inv[len] - 2]

Decrement(inv, len) == [inv EXCEPT ![len] = inv[len] - 1]

\* one iteration of the while loop whose draw has no collision, random()
\* yielding one of draws
PlaceShipsPlaceFrom(draws) ==
    /\ pc.at = "place_ships"
    /\ \E s \in draws :
         LET field == IF pc.who = "Player" THEN player_field ELSE computer_field
             after == ContinuePlaceShips(pc.who, Decrement(pc.inventory, pc.length),
                                         pc.length, pc.handler, start)
         IN  /\ ~has_collision(field, s[1], s[2], pc.length, s[3], FALSE)
             /\ IF pc.who = "Player"
                THEN /\ player_field' = PlaceShip(field, s[1], s[2], pc.length, s[3])
                     /\ player_ships' = player_ships + 1
                     /\ UNCHANGED <<computer_field, computer_ships>>
                ELSE /\ computer_field' = PlaceShip(field, s[1], s[2], pc.length, s[3])
                     /\ computer_ships' = computer_ships + 1
                     /\ UNCHANGED <<player_field, player_ships>>
             /\ pc' = after.pc
             /\ start' = after.start
    /\ UNCHANGED last_shot
    /\ UNCHANGED <<current_move, inventory, length, dir, enemy_ai, winner, hc_call>>

PlaceShipsPlace == PlaceShipsPlaceFrom(RandomDraws(pc.who, pc.length))

\* one iteration of the while loop whose draw collides: nothing is placed
PlaceShipsRetryFrom(draws) ==
    /\ pc.at = "place_ships"
    /\ TRUE = \E s \in draws :
                 has_collision(IF pc.who = "Player" THEN player_field ELSE computer_field,
                               s[1], s[2], pc.length, s[3], FALSE)
    /\ UNCHANGED last_shot
    /\ UNCHANGED <<start, current_move, player_field, computer_field, inventory,
                   length, dir, enemy_ai, player_ships, computer_ships, winner, pc,
                   hc_call>>

PlaceShipsRetry == PlaceShipsRetryFrom(RandomDraws(pc.who, pc.length))

\* ------------------------------------------------------------ on_mouse_button
\* an on_mouse_button without the early return
GameOverNever == FALSE

\* the early return of on_mouse_button
GameOver == winner # "None"

\* a model is always at hand
HasModelAlways == TRUE

has_selected_ship_model == inventory[length] > 0

\* the clicks on the player's grid the user may make now
PlayerGridClicks ==
    LET n == PlacedPrefix(player_field, 0)
    IN  {ManualOrder[i] : i \in {j \in DOMAIN ManualOrder : j = n + 1}}
        \cup {<<b[1], b[2], b[3], b[4]>> : b \in {c \in BadClicks : c[5] <= n}}

\* the selection the user has made is that of click c
Selected(c) == c[3] = dir /\ c[4] = length

\* the `error` of on_mouse_button for a click on cell (x, y) of the player's grid
ClickError(x, y) ==
    ~has_selected_ship_model \/ has_collision(player_field, x, y, length, dir, FALSE)

\* a left press on the player's grid before the battle that places a ship
MousePlaceShip ==
    /\ pc = Events
    /\ ~GameOver
    /\ ~start
    /\ \E c \in PlayerGridClicks :
         LET inv == Decrement(inventory, length)
             after == IF inv = <<0, 0, 0, 0>>
                      THEN ContinuePlaceShips("Computer", StartInventory, 1, "mouse", TRUE)
                      ELSE [pc |-> pc, start |-> start]
         IN  /\ Selected(c)
             /\ ~ClickError(c[1], c[2])
             /\ player_field' = PlaceShip(player_field, c[1], c[2], length, dir)
             /\ inventory' = inv
             /\ player_ships' = player_ships + 1
             /\ pc' = after.pc
             /\ start' = after.start
    /\ UNCHANGED last_shot
    /\ UNCHANGED <<current_move, computer_field, length, dir, enemy_ai,
                   computer_ships, winner, hc_call>>

\* a mouse button event on the player's grid that changes nothing: the game
\* is over, the battle has begun, it is no left press, or the click is refused
MousePlayerGridIgnored ==
    /\ pc = Events
    /\ TRUE = \E c \in PlayerGridClicks, button \in MouseButtons, state \in ElementStates :
                 /\ Selected(c)
                 /\ \/ GameOver
                    \/ start
                    \/ button # "Left"
                    \/ state # "Pressed"
                    \/ ClickError(c[1], c[2])
    /\ UNCHANGED last_shot
    /\ UNCHANGED <<start, current_move, player_field, computer_field, inventory,
                   length, dir, enemy_ai, player_ships, computer_ships, winner, pc,
                   hc_call>>

\* a battle that needs no start
BattleAlways == TRUE

\* game.start.is_some() of the enemy-grid branch of on_mouse_button
BattleBegun == start

\* a mouse button event (any button, pressed or released) on the enemy grid
\* while the player has the move: the player shoots
MouseShootAt(targets) ==
    /\ pc = Events
    /\ ~GameOver
    /\ BattleBegun
    /\ current_move = "Player"
    /\ \E p \in targets :
         LET sh == shoot(computer_field, p[1], p[2], "Player", current_move)
         IN  /\ computer_field' = sh.field
             /\ current_move' = sh.move
             /\ last_shot' = Shot("Player", p[1], p[2], sh.result)
             /\ IF sh.result = "Destroy"
                THEN /\ computer_ships' = ShipsAfterDestroy(computer_ships)
                     /\ winner' = IF WinsAfterDestroy(computer_ships)
                                  THEN "Player" ELSE winner
                ELSE UNCHANGED <<computer_ships, winner>>
    /\ UNCHANGED <<start, player_field, inventory, length, dir, enemy_ai,
                   player_ships, pc, hc_call>>

MouseShoot == MouseShootAt(ClickTargets(computer_field))

\* a mouse button event on the enemy grid that changes nothing
MouseEnemyGridIgnored ==
    /\ pc = Events
    /\ \/ GameOver
       \/ ~BattleBegun
       \/ current_move # "Player"
    /\ UNCHANGED last_shot
    /\ UNCHANGED <<start, current_move, player_field, computer_field, inventory,
                   length, dir, enemy_ai, player_ships, computer_ships, winner, pc,
                   hc_call>>

\* ------------------------------------------------------------ on_keyboard_input
LengthKeys == {"Key1", "Key2", "Key3", "Key4"}
Keys == LengthKeys \cup {"W", "A", "S", "D", "Up", "Left", "Down", "Right", "R", "Escape"}

KeyLength(key) ==
    CASE key = "Key1" -> 1 [] key = "Key2" -> 2 [] key = "Key3" -> 3 [] key = "Key4" -> 4

\* the selection after the key: `key == W || key == Up && pressed` sets the
\* direction for W in either state, for the arrow only when pressed
KeyDir(key, state, d) ==
    LET d1 == IF key = "W" \/ (key = "Up" /\ state = "Pressed") THEN "Up" ELSE d
        d2 == IF key = "A" \/ (key = "Left" /\ state = "Pressed") THEN "Left" ELSE d1
        d3 == IF key = "S" \/ (key = "Down" /\ state = "Pressed") THEN "Down" ELSE d2
    IN  IF key = "D" \/ (key = "Right" /\ state = "Pressed") THEN "Right" ELSE d3

\* a key other than a pressed R, before the battle
KeySelect(key, state) ==
    /\ pc = Events
    /\ ~start
    /\ ~(key = "R" /\ state = "Pressed")
    /\ length' = IF key \in LengthKeys /\ state = "Pressed" THEN KeyLength(key) ELSE length
    /\ dir' = KeyDir(key, state, dir)
    /\ UNCHANGED last_shot
    /\ UNCHANGED <<start, current_move, player_field, computer_field, inventory,
                   enemy_ai, player_ships, computer_ships, winner, pc, hc_call>>

\* R pressed before the battle: place_ships(Player, inventory) is entered
KeyR ==
    /\ pc = Events
    /\ ~start
    /\ LET after == ContinuePlaceShips("Player", inventory, 1, "key_R", start)
       IN  /\ pc' = after.pc
           /\ start' = after.start
    /\ UNCHANGED last_shot
    /\ UNCHANGED <<current_move, player_field, computer_field, inventory, length,
                   dir, enemy_ai, player_ships, computer_ships, winner, hc_call>>

\* any key once the battle has begun
KeyIgnored ==
    /\ pc = Events
    /\ start
    /\ UNCHANGED last_shot
    /\ UNCHANGED <<start, current_move, player_field, computer_field, inventory,
                   length, dir, enemy_ai, player_ships, computer_ships, winner, pc,
                   hc_call>>

\* ------------------------------------------------------------ on_mouse_scroll
\* the wheel's LineDelta y, in halves of a line
ScrollHalves == {-10, -2, -1, 0, 1, 2, 10}

\* the cast alone, with no clamp
ScrollLengthCast(len, yh) ==
    LET v == 2 * len + yh
    IN  IF v < 0 THEN 0 ELSE IF v \div 2 > 255 THEN 255 ELSE v \div 2

\* ((length as f32 + y) as u8).clamp(1, 4): the cast truncates and saturates
ScrollLength(len, yh) ==
    LET v == 2 * len + yh
        u == IF v < 0 THEN 0 ELSE IF v \div 2 > 255 THEN 255 ELSE v \div 2
    IN  IF u < 1 THEN 1 ELSE IF u > 4 THEN 4 ELSE u

MouseScroll(yh, shift) ==
    /\ pc = Events
    /\ ~start
    /\ IF shift
       THEN /\ dir' = IF yh > 0 THEN clockwise(dir) ELSE counter_clockwise(dir)
            /\ UNCHANGED length
       ELSE /\ length' = ScrollLength(length, yh)
            /\ UNCHANGED dir
    /\ UNCHANGED last_shot
    /\ UNCHANGED <<start, current_move, player_field, computer_field, inventory,
                   enemy_ai, player_ships, computer_ships, winner, pc, hc_call>>

MouseScrollIgnored ==
    /\ pc = Events
    /\ start
    /\ UNCHANGED last_shot
    /\ UNCHANGED <<start, current_move, player_field, computer_field, inventory,
                   length, dir, enemy_ai, player_ships, computer_ships, winner, pc,
                   hc_call>>

\* ------------------------------------------------------------ draw_frame
\* a frame's time_elapsed, in ticks
Elapsed == 1..TicksPerUnit

\* a frame off the computer's move that counts the delay down all the same
FrameIdleCounts ==
    /\ pc = Events
    /\ winner # "None" \/ current_move # "Computer"
    /\ enemy_ai' = [enemy_ai EXCEPT !.delay = IF enemy_ai.delay > 1
                                               THEN enemy_ai.delay - 1
                                               ELSE enemy_ai.delay]
    /\ UNCHANGED last_shot
    /\ UNCHANGED <<start, current_move, player_field, computer_field, inventory,
                   length, dir, player_ships, computer_ships, winner, pc, hc_call>>

\* a frame in which update_ai is not called (the game is over) or returns at
\* once (the player has the move)
FrameIdle ==
    /\ pc = Events
    /\ winner # "None" \/ current_move # "Computer"
    /\ UNCHANGED last_shot
    /\ UNCHANGED <<start, current_move, player_field, computer_field, inventory,
                   length, dir, enemy_ai, player_ships, computer_ships, winner, pc,
                   hc_call>>

\* a frame on the computer's move that leaves the delay above 0
FrameWait(elapsed) ==
    /\ pc = Events
    /\ winner = "None"
    /\ current_move = "Computer"
    /\ enemy_ai.delay - elapsed > 0
    /\ enemy_ai' = [enemy_ai EXCEPT !.delay = enemy_ai.delay - elapsed]
    /\ UNCHANGED last_shot
    /\ UNCHANGED <<start, current_move, player_field, computer_field, inventory,
                   length, dir, player_ships, computer_ships, winner, pc, hc_call>>

\* a delay that is counted down and not set anew
DelayNotReset == enemy_ai.delay - TicksPerUnit

\* the delay update_ai sets before it shoots (main.rs 408), in ticks
DelayAfterShot == MOVE_DELAY * TicksPerUnit

\* What update_ai leaves when the delay has run out, for the outcome sel of
\* the target selection and the random direction index rd: the delay is
\* reset, the target is shot at, the tactics follow the result.
AiShot(sel, points, rd) ==
    LET x == sel.target[1]
        y == sel.target[2]
        same == [pc |-> pc, field |-> player_field, move |-> current_move,
                 tactics |-> sel.tactics, ships |-> player_ships,
                 winner |-> winner, shot |-> last_shot]
    IN  IF sel.status = "panic" THEN [same EXCEPT !.pc = Panicked]
        ELSE IF sel.status = "hang" THEN [same EXCEPT !.pc = Hung]
        ELSE IF ~InGrid(x, y)
        THEN [same EXCEPT !.pc = Panicked, !.shot = Shot("Computer", x, y, "Panic")]
        ELSE LET sh == shoot(player_field, x, y, "Computer", current_move)
                 hit == AfterHit(sel.tactics, points, x, y, rd)
                 shot == [same EXCEPT !.field = sh.field, !.move = sh.move,
                                      !.shot = Shot("Computer", x, y, sh.result)]
             IN  IF sh.result = "Miss"
                 THEN [shot EXCEPT !.tactics = AfterMiss(sel.tactics)]
                 ELSE IF sh.result = "Hit"
                 THEN IF hit.kind = "hang" THEN [shot EXCEPT !.pc = Hung]
                      ELSE [shot EXCEPT !.tactics = hit]
                 ELSE [shot EXCEPT !.tactics = AfterDestroy(sel.tactics),
                                   !.ships = ShipsAfterDestroy(player_ships),
                                   !.winner = IF WinsAfterDestroy(player_ships)
                                              THEN "Computer" ELSE winner]

\* a frame on the computer's move in which the delay runs out, random::<usize>()
\* drawn from randoms and random::<u8>() from dirs
UpdateAiShoot(randoms, dirs) ==
    /\ pc = Events
    /\ winner = "None"
    /\ current_move = "Computer"
    /\ TRUE = \E elapsed \in Elapsed : enemy_ai.delay - elapsed <= 0
    /\ \E points \in {Points(player_field)} :
       \E next \in {AiShot(sel, points, rd) :
                       sel \in {SelectTarget(enemy_ai.tactics, points, r) : r \in randoms},
                       rd \in dirs} :
             /\ pc' = next.pc
             /\ player_field' = next.field
             /\ current_move' = next.move
             /\ enemy_ai' = [tactics |-> next.tactics, delay |-> DelayAfterShot]
             /\ player_ships' = next.ships
             /\ winner' = next.winner
             /\ last_shot' = next.shot
    /\ UNCHANGED <<start, computer_field, inventory, length, dir, computer_ships,
                   hc_call>>

FrameShoot == UpdateAiShoot(0..(MaxRandom - 1), 0..(MaxRandomDir - 1))

\* ------------------------------------------------------------ specifications
\* The whole game.  Before the battle the user uses the mouse and the R key
\* only (the selection stays as GameContext::new leaves it); the keys and the
\* wheel are used once the battle has begun.
Next ==
    \/ MousePlaceShip
    \/ MousePlayerGridIgnored
    \/ MouseShoot
    \/ MouseEnemyGridIgnored
    \/ KeyR
    \/ KeyIgnored
    \/ MouseScrollIgnored
    \/ PlaceShipsPlace
    \/ PlaceShipsRetry
    \/ FrameIdle
    \/ \E elapsed \in Elapsed : FrameWait(elapsed)
    \/ FrameShoot

Spec == Init /\ [][Next]_vars

\* The placement phase with every key and the wheel; the user never clicks
\* the enemy grid, so the move stays with the player.
NextPlacement ==
    \/ MousePlaceShip
    \/ MousePlayerGridIgnored
    \/ MouseEnemyGridIgnored
    \/ \E key \in Keys, state \in ElementStates : KeySelect(key, state)
    \/ KeyR
    \/ KeyIgnored
    \/ \E yh \in ScrollHalves, shift \in BOOLEAN : MouseScroll(yh, shift)
    \/ MouseScrollIgnored
    \/ PlaceShipsPlace
    \/ PlaceShipsRetry
    \/ FrameIdle

SpecPlacement == Init /\ [][NextPlacement]_vars

\* The opening of a battle begun with the R key: the player clicks the water
\* cells of OpeningShots and no more, the computer's random::<usize>() is
\* below MaxRandom or MaxIndex-1.
OpeningShots == << <<5, 0>>, <<5, 1>> >>

OpeningTargets(field) ==
    {OpeningShots[i] : i \in {j \in DOMAIN OpeningShots :
        /\ ~IsShot(field[OpeningShots[j]])
        /\ \A k \in 1..(j - 1) : IsShot(field[OpeningShots[k]])}}

MouseShootOpening == MouseShootAt(OpeningTargets(computer_field))

FrameShootOpening ==
    UpdateAiShoot((0..(MaxRandom - 1)) \cup {MaxIndex - 1}, 0..(MaxRandomDir - 1))

NextOpening ==
    \/ KeyR
    \/ PlaceShipsPlace
    \/ PlaceShipsRetry
    \/ MouseShootOpening
    \/ FrameIdle
    \/ \E elapsed \in Elapsed : FrameWait(elapsed)
    \/ FrameShootOpening

SpecOpening == Init /\ [][NextOpening]_vars

\* The same opening with random::<usize>() in 0..MaxRandom: the computer may
\* begin in the middle of the ship of four.
FrameShootLine == UpdateAiShoot(0..MaxRandom, 0..(MaxRandomDir - 1))

NextLine ==
    \/ KeyR
    \/ PlaceShipsPlace
    \/ PlaceShipsRetry
    \/ MouseShootOpening
    \/ FrameIdle
    \/ \E elapsed \in Elapsed : FrameWait(elapsed)
    \/ FrameShootLine

SpecLine == Init /\ [][NextLine]_vars

\* A battle begun with the R key in which the player clicks the water cells
\* of WaterShots and no more, and the computer's random::<usize>() is 0 or
\* MidShipIndex, the index of (2, 1) in the list of all cells: the middle of
\* the player's ship of three at (2, 0)..(2, 2).
WaterShots == << <<5, 0>>, <<5, 1>>, <<5, 2>>, <<5, 3>> >>

WaterTargets(field) ==
    {WaterShots[i] : i \in {j \in DOMAIN WaterShots :
        /\ ~IsShot(field[WaterShots[j]])
        /\ \A k \in 1..(j - 1) : IsShot(field[WaterShots[k]])}}

MidShipIndex == 2 * GRID + 1

MouseShootWater == MouseShootAt(WaterTargets(computer_field))

FrameShootMid == UpdateAiShoot({0, MidShipIndex}, 0..(MaxRandomDir - 1))

NextMid ==
    \/ KeyR
    \/ PlaceShipsPlace
    \/ PlaceShipsRetry
    \/ MouseShootWater
    \/ FrameIdle
    \/ \E elapsed \in Elapsed : FrameWait(elapsed)
    \/ FrameShootMid

SpecMid == Init /\ [][NextMid]_vars

\* The same with frames that keep coming: draw_frame is called again and
\* again, so a frame that can shoot, or wait, is not put off for ever.
SpecMidFair ==
    /\ SpecMid
    /\ WF_vars(FrameShootMid)
    /\ WF_vars(\E elapsed \in Elapsed : FrameWait(elapsed))

\* Placement in which random() of place_ships yields, for either side, the
\* ships of CrowdedSlots: four ships of one, three of two and two of three
\* that touch no other and leave no four free cells in a row or a column
\* clear of them all.  The user selects models with the keys, places ships
\* of ManualOrder by hand, or none, and may press R.
CrowdedSlots ==
    { <<6, 9, "Down", 1>>, <<6, 5, "Down", 1>>, <<5, 0, "Down", 1>>, <<8, 7, "Down", 1>>,
      <<0, 1, "Right", 2>>, <<4, 3, "Right", 2>>, <<8, 3, "Down", 2>>,
      <<1, 4, "Down", 3>>, <<3, 7, "Down", 3>> }

CrowdedDraws(who, len) == {s \in CrowdedSlots \cup PlayerBadDraws : s[4] = len}

NextCrowded ==
    \/ MousePlaceShip
    \/ MousePlayerGridIgnored
    \/ \E key \in Keys, state \in ElementStates : KeySelect(key, state)
    \/ KeyR
    \/ PlaceShipsPlaceFrom(CrowdedDraws(pc.who, pc.length))
    \/ PlaceShipsRetryFrom(CrowdedDraws(pc.who, pc.length))
    \/ FrameIdle

SpecCrowded == Init /\ [][NextCrowded]_vars

\* ------------------------------------------------------------ has_collision alone
\* the player's field once the first n ships of ManualOrder stand
RECURSIVE PlacedField(_)
PlacedField(n) ==
    IF n = 0 THEN NewField
    ELSE PlaceShip(PlacedField(n - 1), ManualOrder[n][1], ManualOrder[n][2],
                   ManualOrder[n][4], ManualOrder[n][3])

\* shots of the computer that sink the ship of four, miss once and fire two
\* segments of a ship of three
SampleShots == << <<0, 0>>, <<1, 0>>, <<0, 1>>, <<0, 2>>, <<0, 3>>, <<0, 5>>, <<1, 5>> >>

RECURSIVE ShotField(_, _)
ShotField(field, n) ==
    IF n = 0 THEN field
    ELSE shoot(ShotField(field, n - 1), SampleShots[n][1], SampleShots[n][2],
               "Computer", "Computer").field

\* the grids has_collision is called on
SampleFields ==
    {NewField, PlacedField(3), PlacedField(Len(ManualOrder)),
     ShotField(PlacedField(Len(ManualOrder)), Len(SampleShots))}

InitCollision ==
    /\ start = FALSE
    /\ current_move = "Player"
    /\ player_field \in SampleFields
    /\ computer_field = NewField
    /\ inventory = StartInventory
    /\ length = 4
    /\ dir = "Down"
    /\ enemy_ai = [tactics |-> Random, delay |-> MOVE_DELAY * TicksPerUnit]
    /\ player_ships = 0
    /\ computer_ships = 0
    /\ winner = "None"
    /\ pc = Events
    /\ last_shot = NoShot
    /\ hc_call = NoCall

\* one call player_field.has_collision(x, y, len, d, destroyed_only)
CallHasCollision ==
    /\ ~hc_call.called
    /\ \E x \in Coords, y \in Coords, len \in 1..4, d \in Dirs, destroyed_only \in BOOLEAN :
         hc_call' = [called |-> TRUE, x |-> x, y |-> y, length |-> len, dir |-> d,
                     destroyed_only |-> destroyed_only,
                     result |-> has_collision(player_field, x, y, len, d, destroyed_only)]
    /\ UNCHANGED <<start, current_move, player_field, computer_field, inventory,
                   length, dir, enemy_ai, player_ships, computer_ships, winner, pc,
                   last_shot>>

NextCollision == CallHasCollision

SpecCollision == InitCollision /\ [][NextCollision]_vars

\* ------------------------------------------------------------ properties
Abs(n) == IF n < 0 THEN -n ELSE n
Chebyshev(p, q) ==
    IF Abs(p[1] - q[1]) > Abs(p[2] - q[2]) THEN Abs(p[1] - q[1]) ELSE Abs(p[2] - q[2])

\* the run of len cells from (x, y) along d
Run(x, y, len, d) ==
    {<<x + to_vec(d)[1] * i, y + to_vec(d)[2] * i>> : i \in 0..(len - 1)}

IsShip(field, p) == field[p].kind = "Ship"

\* the first cell of the ship that the segment at p belongs to
Origin(field, p) ==
    <<p[1] - to_vec(field[p].dir)[1] * field[p].back,
      p[2] - to_vec(field[p].dir)[2] * field[p].back>>

\* the cells of the ship that the segment at p belongs to, were none cut off
Extent(field, p) ==
    {<<p[1] + to_vec(field[p].dir)[1] * i, p[2] + to_vec(field[p].dir)[2] * i>> :
        i \in (-field[p].back)..field[p].front}

ShipLength(field, p) == field[p].front + field[p].back + 1

Near(p) == {q \in Cells : Chebyshev(p, q) <= 1}

\* C1 said declaratively: a run cell lies outside the grid, or a cell of the
\* grid within Chebyshev distance 1 of a run cell holds a ship segment that
\* the destroyed_only filter lets through
RunCollides(field, x, y, len, d, destroyed_only) ==
    \/ \E c \in Run(x, y, len, d) : ~InGrid(c[1], c[2])
    \/ \E c \in Run(x, y, len, d) : \E q \in Cells :
          /\ Chebyshev(c, q) <= 1
          /\ IsShip(field, q)
          /\ destroyed_only => field[q].destroyed

\* C1: has_collision returns true if and only if the run of length cells from
\* (x, y) along the direction leaves the grid or a cell of the grid within
\* Chebyshev distance 1 of a run cell holds a ship segment (a destroyed one when
\* destroyed_only is set); the call leaves the grid as it was.
HasCollisionIsRunCollides ==
    /\ [](hc_call.called =>
            hc_call.result = RunCollides(player_field, hc_call.x, hc_call.y,
                                         hc_call.length, hc_call.dir,
                                         hc_call.destroyed_only))
    /\ [][hc_call' # hc_call => player_field' = player_field]_vars

\* a call with destroyed_only set whose run stays in the grid and lies beside
\* a destroyed ship, and none beside with destroyed_only clear
DestroyedNeighbourFound ==
    /\ hc_call.called
    /\ hc_call.destroyed_only
    /\ hc_call.result
    /\ hc_call.length = 3
    /\ \A c \in Run(hc_call.x, hc_call.y, hc_call.length, hc_call.dir) : InGrid(c[1], c[2])
    /\ \E q \in Cells : IsShip(player_field, q) /\ ~player_field[q].destroyed

\* C2: on either grid, two ship segments within Chebyshev distance 1 of each
\* other belong to the same ship, and every ship lies in the grid whole.
NoTouch(field) ==
    \A p \in Cells : IsShip(field, p) =>
        \A q \in Near(p) : IsShip(field, q) => Origin(field, q) = Origin(field, p)

Whole(field) ==
    \A p \in Cells : IsShip(field, p) =>
        \A q \in Extent(field, p) :
            /\ InGrid(q[1], q[2])
            /\ IsShip(field, q)
            /\ Origin(field, q) = Origin(field, p)
            /\ ShipLength(field, q) = ShipLength(field, p)

ShipsApartAndInside ==
    /\ NoTouch(player_field) /\ Whole(player_field)
    /\ NoTouch(computer_field) /\ Whole(computer_field)

\* the player has placed the whole fleet by hand and the computer's stands
FleetsPlacedByHand ==
    /\ start
    /\ inventory = <<0, 0, 0, 0>>
    /\ player_ships = 10
    /\ computer_ships = 10
    /\ pc = Events

\* the shoot call that a step makes, if it makes one
ShootStep == last_shot' # last_shot

Opponent(side) == IF side = "Player" THEN "Computer" ELSE "Player"

EnemyField(shooter) == IF shooter = "Player" THEN computer_field ELSE player_field

DestroyedIffAllFired(field) ==
    \A p \in Cells : IsShip(field, p) =>
        (field[p].destroyed <=> \A q \in Extent(field, p) : field[q].fire)

ShotMarksDestroyed ==
    LET s == last_shot'
        p == <<s.x, s.y>>
        old == EnemyField(s.shooter)
        new == IF s.shooter = "Player" THEN computer_field' ELSE player_field'
    IN  (ShootStep /\ s.result \in {"Hit", "Destroy"}) =>
            /\ IsShip(old, p) /\ ~old[p].fire /\ new[p].fire
            /\ s.result = "Destroy" =>
                  \A q \in Extent(old, p) :
                      /\ new[q].fire /\ new[q].destroyed /\ ~old[q].destroyed
                      /\ q # p => old[q].fire
            /\ s.result = "Hit" =>
                  /\ \E q \in Extent(old, p) : ~new[q].fire
                  /\ \A q \in Cells :
                        IsShip(new, q) => new[q].destroyed = old[q].destroyed

\* C3: on either grid a ship's segments are destroyed if and only if each of
\* its segments is fired; the shot that fires the last unfired segment of a
\* ship returns Destroy and marks the whole ship, a shot that leaves a segment
\* unfired returns Hit and marks nothing.
DestroyedWhenAllFired ==
    /\ [](DestroyedIffAllFired(player_field) /\ DestroyedIffAllFired(computer_field))
    /\ [][ShotMarksDestroyed]_vars

\* ships of each length 1..4 lie sunk on the computer's grid, and the player
\* has a ship that is hit and afloat
SunkEveryLength ==
    /\ \A n \in 1..4 : \E p \in Cells :
          /\ IsShip(computer_field, p)
          /\ computer_field[p].destroyed
          /\ ShipLength(computer_field, p) = n
    /\ \E p \in Cells :
          /\ IsShip(player_field, p)
          /\ player_field[p].fire
          /\ ~player_field[p].destroyed

\* C4 as stated: a shoot call that returns Miss hands the move to the other
\* side, one that returns Hit or Destroy leaves the move where it is.
MissAlwaysFlips ==
    [][(ShootStep /\ last_shot'.result \in ShootResults) =>
          /\ last_shot'.result = "Miss" => current_move' = Opponent(current_move)
          /\ last_shot'.result \in {"Hit", "Destroy"} => current_move' = current_move]_vars

\* C4 amended: a shot at Water returns Miss and hands the move to the
\* shooter's opponent; a Miss returned for a cell shot before, and a Hit or a
\* Destroy, leave the move where it is.
MissOnWaterFlips ==
    [][(ShootStep /\ last_shot'.result \in ShootResults) =>
          LET s == last_shot'
              cell == EnemyField(s.shooter)[<<s.x, s.y>>]
          IN  /\ cell.kind = "Water" =>
                    /\ s.result = "Miss"
                    /\ current_move' = Opponent(s.shooter)
                    /\ current_move' # current_move
              /\ (s.result = "Miss" /\ cell.kind # "Water") => current_move' = current_move
              /\ s.result \in {"Hit", "Destroy"} => current_move' = current_move]_vars

\* the player's latest shot returned Miss and the move is still the player's
PlayerKeptMoveOnMiss ==
    /\ last_shot.shooter = "Player"
    /\ last_shot.result = "Miss"
    /\ current_move = "Player"
    /\ winner = "None"
    /\ IsShot(computer_field[<<last_shot.x, last_shot.y>>])

\* C5: a shot at a cell that is Miss or a fired segment returns Miss and
\* leaves both grids, the move, the winner and both counters as they were,
\* whoever shoots.
ReshootChangesNothing ==
    [][(/\ ShootStep
        /\ last_shot'.result \in ShootResults
        /\ IsShot(EnemyField(last_shot'.shooter)[<<last_shot'.x, last_shot'.y>>])) =>
          /\ last_shot'.result = "Miss"
          /\ UNCHANGED <<player_field, computer_field, current_move, winner,
                         player_ships, computer_ships>>]_vars

\* the computer's latest shot returned Miss and the move is still the computer's
ComputerKeptMoveOnMiss ==
    /\ last_shot.shooter = "Computer"
    /\ last_shot.result = "Miss"
    /\ current_move = "Computer"
    /\ pc = Events

AllSunk(field) == \A p \in Cells : IsShip(field, p) => field[p].destroyed

\* C6: the winner changes in just the steps in which player_ships or
\* computer_ships goes from 1 to 0, from None to the other side; a side that
\* has lost has no ship afloat.
WinnerSetAtLastShip ==
    /\ [](/\ winner = "Computer" => AllSunk(player_field) /\ player_ships = 0
          /\ winner = "Player" => AllSunk(computer_field) /\ computer_ships = 0)
    /\ [][/\ winner' # winner <=>
                /\ winner = "None"
                /\ \/ player_ships = 1 /\ player_ships' = 0
                   \/ computer_ships = 1 /\ computer_ships' = 0
          /\ (player_ships = 1 /\ player_ships' = 0) => winner' = "Computer"
          /\ (computer_ships = 1 /\ computer_ships' = 0) => winner' = "Player"
          /\ (player_ships' = 0 /\ player_ships # 0) => player_ships = 1
          /\ (computer_ships' = 0 /\ computer_ships # 0) => computer_ships = 1]_vars

\* the computer has sunk the player's fleet
ComputerWon ==
    /\ winner = "Computer"
    /\ player_ships = 0
    /\ computer_ships > 0
    /\ last_shot.result = "Destroy"

\* C7: with a winner, no step changes a grid, the move, a counter or the winner.
FinishedIsFrozen ==
    [][winner # "None" =>
          UNCHANGED <<player_field, computer_field, current_move, player_ships,
                      computer_ships, winner>>]_vars

\* the player has won, has the move, and clicks water on the enemy grid
PlayerWonWaterOffered ==
    /\ winner = "Player"
    /\ current_move = "Player"
    /\ start
    /\ \E p \in ClickTargets(computer_field) : computer_field[p].kind = "Water"

\* C8: each shoot call is made with the battle begun, no winner, the move
\* with the shooter and the target in the grid.
ShootCallsAreLegal ==
    [][ShootStep =>
          /\ start
          /\ winner = "None"
          /\ current_move = last_shot'.shooter
          /\ InGrid(last_shot'.x, last_shot'.y)]_vars

ComputerToSelect ==
    /\ start
    /\ winner = "None"
    /\ current_move = "Computer"

\* C9: whenever the battle runs, has no winner and the move is the
\* computer's, points is not empty.
CandidatesNeverEmpty ==
    ComputerToSelect => Len(Points(player_field)) > 0

\* the computer picks at random with one ship of the player left
RandomPickLate ==
    /\ ComputerToSelect
    /\ pc = Events
    /\ enemy_ai.tactics = Random
    /\ player_ships = 1

\* C10: under Scan, on the computer's move, one of the four cells next to pos
\* is in the grid and in points, so the selection loop breaks with a target
\* within four turns.
ScanFindsTarget ==
    (ComputerToSelect /\ pc = Events /\ enemy_ai.tactics.kind = "Scan") =>
        LET points == Points(player_field)
            pos == enemy_ai.tactics.pos
        IN  /\ \E d \in Dirs : Probe(points, Step(pos, d)[1], Step(pos, d)[2])
            /\ SelectTarget(enemy_ai.tactics, points, 0).status = "ok"

\* under Scan the first probe fails, so the loop has to turn
ScanMustTurn ==
    /\ ComputerToSelect
    /\ pc = Events
    /\ enemy_ai.tactics.kind = "Scan"
    /\ ~Probe(Points(player_field),
              Step(enemy_ai.tactics.pos, enemy_ai.tactics.dir)[1],
              Step(enemy_ai.tactics.pos, enemy_ai.tactics.dir)[2])

\* C11: the search of the Hit arm under Scan for a direction to go on in
\* comes to an end: update_ai never stays in it for ever.
HitWhileScanTerminates ==
    ~(pc = Hung /\ last_shot.shooter = "Computer" /\ last_shot.result = "Hit")

\* what a cell keeps from one state to the next
Keeps(c, d) ==
    /\ c.kind = "Miss" => d.kind = "Miss"
    /\ c.kind = "Ship" => d.kind = "Ship"
    /\ (c.kind = "Ship" /\ c.fire) => d.fire
    /\ (c.kind = "Ship" /\ c.destroyed) => d.destroyed

\* C12: on both grids a fired segment stays fired, a destroyed segment stays
\* destroyed and a Miss cell stays Miss, in every step.
FlagsNeverRevert ==
    [][\A p \in Cells :
          /\ Keeps(player_field[p], player_field'[p])
          /\ Keeps(computer_field[p], computer_field'[p])]_vars

\* the game is over and both grids carry Miss cells and sunk ships
MarkedGridsAtTheEnd ==
    /\ winner = "Player"
    /\ \E p \in Cells : player_field[p].kind = "Miss"
    /\ \E p \in Cells : IsShip(player_field, p) /\ player_field[p].destroyed
    /\ \E p \in Cells : IsShip(player_field, p) /\ player_field[p].fire
                        /\ ~player_field[p].destroyed
    /\ \E p \in Cells : computer_field[p].kind = "Miss"

\* a cell of field turns Miss only if the step is a shot by shooter at that
\* cell, and the cell was Water
MissOnlyByShot(field, fieldNext, shotNext, changed, shooter) ==
    \A p \in Cells :
        (fieldNext[p].kind = "Miss" /\ field[p].kind # "Miss") =>
            /\ changed
            /\ shotNext.shooter = shooter
            /\ <<shotNext.x, shotNext.y>> = p
            /\ shotNext.result = "Miss"
            /\ field[p].kind = "Water"

\* C13: a cell becomes Miss only in a shoot step that targets that very cell
\* while it is Water; a cell that holds a ship segment never becomes Miss.
MissOnlyWhereWaterWasShot ==
    [][/\ MissOnlyByShot(player_field, player_field', last_shot', ShootStep, "Computer")
       /\ MissOnlyByShot(computer_field, computer_field', last_shot', ShootStep, "Player")
       /\ \A p \in Cells :
            /\ IsShip(player_field, p) => IsShip(player_field', p)
            /\ IsShip(computer_field, p) => IsShip(computer_field', p)]_vars

\* both sides have missed, the computer beside a ship it has sunk since
MissBesideSunkShip ==
    /\ \E p \in Cells :
          /\ player_field[p].kind = "Miss"
          /\ \E q \in Near(p) : IsShip(player_field, q) /\ player_field[q].destroyed
    /\ \E p \in Cells : computer_field[p].kind = "Miss"

\* C14: whenever the battle has begun, the inventory is zero for each length.
InventorySpentAtStart ==
    (start /\ pc = Events) => inventory = <<0, 0, 0, 0>>

\* the fleet on a grid: how many ships of each length 1..4
Fleet(field) ==
    [n \in 1..4 |->
        Cardinality({p \in Cells : /\ IsShip(field, p)
                                   /\ field[p].back = 0
                                   /\ ShipLength(field, p) = n})]

NothingPlaced == ~start /\ pc = Events /\ player_ships = 0

\* C15 as stated: the inventory is one ship of length 1, one of length 2, two
\* of length 3 and one of length 4, and that is the fleet on each grid when
\* the battle begins.
FleetAsStated ==
    /\ NothingPlaced => inventory = <<1, 1, 2, 1>>
    /\ (start /\ pc = Events) =>
          /\ Fleet(player_field) = <<1, 1, 2, 1>>
          /\ Fleet(computer_field) = <<1, 1, 2, 1>>

\* C15 amended: the inventory is four ships of length 1, three of length 2,
\* two of length 3 and one of length 4, for the computer too, and that is the
\* fleet on each grid when the battle begins.
FleetIsFourThreeTwoOne ==
    /\ NothingPlaced => inventory = <<4, 3, 2, 1>>
    /\ (pc.at = "place_ships" /\ pc.who = "Computer" /\ computer_ships = 0) =>
          pc.inventory = <<4, 3, 2, 1>>
    /\ (start /\ pc = Events) =>
          /\ Fleet(player_field) = <<4, 3, 2, 1>>
          /\ Fleet(computer_field) = <<4, 3, 2, 1>>
          /\ player_ships = 10 /\ computer_ships = 10

\* the battle has begun after the R key alone placed both fleets
BattleBegunByKeyR ==
    /\ start
    /\ pc = Events
    /\ inventory = <<4, 3, 2, 1>>
    /\ Fleet(player_field) = <<4, 3, 2, 1>>

\* the cells in which two grids differ
Changed(old, new) == {p \in Cells : old[p] # new[p]}

\* the step lays the selected model on cells of the player's grid where it
\* may lie, and takes it from the inventory
LegalPlacement ==
    /\ inventory[length] > 0
    /\ \E x \in Coords, y \in Coords :
          /\ ~RunCollides(player_field, x, y, length, dir, FALSE)
          /\ Changed(player_field, player_field') = Run(x, y, length, dir)
    /\ inventory' = [inventory EXCEPT ![length] = inventory[length] - 1]
    /\ player_ships' = player_ships + 1

\* C16: before the battle, an event changes the player's grid, the inventory,
\* player_ships or start only by a placement that has a model in the inventory
\* and a run that does not collide: a refused click changes none of them. The
\* inventory never falls below zero and no placement step panics.
RefusedClickChangesNothing ==
    /\ [](\A n \in 1..4 : inventory[n] \in 0..4)
    /\ [](start \/ pc \notin {Panicked, Hung})
    /\ [][(/\ pc = Events
           /\ ~start
           /\ <<player_field, inventory, player_ships, start>>' #
                  <<player_field, inventory, player_ships, start>>) =>
             LegalPlacement]_vars

\* the four is placed and selected again, and a click is offered whose run is
\* free; another offered click has a model but collides
RefusedClicksOffered ==
    /\ ~start
    /\ pc = Events
    /\ player_ships > 0
    /\ inventory[length] = 0
    /\ \E c \in PlayerGridClicks :
          Selected(c) /\ ~has_collision(player_field, c[1], c[2], length, dir, FALSE)
    /\ \E c \in PlayerGridClicks :
          /\ inventory[c[4]] > 0
          /\ has_collision(player_field, c[1], c[2], c[4], c[3], FALSE)

\* the number of ships on a grid
ShipCount(field) == Cardinality({p \in Cells : IsShip(field, p) /\ field[p].back = 0})

SameShipCells(old, new) == \A p \in Cells : IsShip(old, p) <=> IsShip(new, p)

\* C17: the match moves from placement to battle to the end and never back:
\* no shot before the battle has begun with ten ships on each grid, start is
\* never cleared, no ship is placed once the battle runs, and a winner stays.
PhaseOnlyForward ==
    /\ [](last_shot # NoShot => start)
    /\ [](winner # "None" => start)
    /\ [][/\ ShootStep =>
                /\ start /\ pc = Events
                /\ ShipCount(player_field) = 10 /\ ShipCount(computer_field) = 10
          /\ start => start'
          /\ (start /\ pc = Events) =>
                /\ SameShipCells(player_field, player_field')
                /\ SameShipCells(computer_field, computer_field')
          /\ winner # "None" => winner' = winner]_vars

\* the player has won a battle begun by the R key and has lost ships
PlayerWonAfterLosses ==
    /\ winner = "Player"
    /\ start
    /\ inventory # <<0, 0, 0, 0>>
    /\ player_ships < 10
    /\ last_shot.shooter = "Player"

\* the cells of the grid within Chebyshev distance 1 of p
Around(p) ==
    {q \in {<<p[1] + dx, p[2] + dy>> : dx \in -1..1, dy \in -1..1} : InGrid(q[1], q[2])}

\* every segment at p lies in a straight run of 1..4 segments of one dir whose
\* offsets count from the start cell, and no segment beside it is of another run
StraightRuns(field) ==
    \A p \in Cells : IsShip(field, p) =>
        /\ ShipLength(field, p) \in 1..4
        /\ field[p].back >= 0 /\ field[p].front >= 0
        /\ \A i \in (-field[p].back)..field[p].front :
              LET q == <<p[1] + to_vec(field[p].dir)[1] * i,
                         p[2] + to_vec(field[p].dir)[2] * i>>
              IN  /\ InGrid(q[1], q[2])
                  /\ IsShip(field, q)
                  /\ field[q].dir = field[p].dir
                  /\ field[q].back = field[p].back + i
                  /\ field[q].front = field[p].front - i
        /\ \A q \in Around(p) : IsShip(field, q) => q \in Extent(field, p)

\* C18: on either grid each Ship cell lies in one straight run of 1..4 cells
\* of the same dir, with back = i and front = L-i-1 for the i-th cell, so
\* the walk -back..+front along dir visits that ship's cells and no others.
ShipsAreStraightRuns ==
    StraightRuns(player_field) /\ StraightRuns(computer_field)

\* the battle runs, the computer's grid has ships of two or more cells in
\* each of the four directions, and one of them is hit
RunsOfEveryDir ==
    /\ start
    /\ pc = Events
    /\ \A d \in Dirs : \E p \in Cells :
          /\ IsShip(computer_field, p)
          /\ computer_field[p].dir = d
          /\ ShipLength(computer_field, p) >= 2
    /\ \E p \in Cells : /\ IsShip(computer_field, p)
                        /\ computer_field[p].fire
                        /\ ~computer_field[p].destroyed

\* a step that places a ship on side's grid writes the cells of a ship of
\* length L on Water, takes one L from the inventory in use and adds one to
\* side's counter
PlacesOneShip(old, new, ships, shipsNext) ==
    LET D == Changed(old, new)
        L == Cardinality(D)
        inv == IF pc = Events THEN inventory ELSE pc.inventory
        after == IF pc = Events THEN inventory'
                 ELSE IF pc'.at = "place_ships" /\ pc'.who = pc.who
                 THEN pc'.inventory
                 ELSE <<0, 0, 0, 0>>
    IN  /\ L \in 1..4
        /\ \A p \in D :
              /\ old[p] = Water
              /\ IsShip(new, p)
              /\ ~new[p].fire /\ ~new[p].destroyed
              /\ ShipLength(new, p) = L
              /\ Extent(new, p) = D
        /\ inv[L] >= 1
        /\ after = [inv EXCEPT ![L] = inv[L] - 1]
        /\ shipsNext = ships + 1

\* C19: a placement of a ship of length L writes L cells, all Water before
\* and unfired, undestroyed segments after, takes one from the inventory
\* count of L, adds one to the placing side's counter and changes nothing
\* else on either grid.
PlacementWritesOneShip ==
    [][/\ (~ShootStep /\ player_field' # player_field) =>
             /\ PlacesOneShip(player_field, player_field', player_ships, player_ships')
             /\ UNCHANGED <<computer_field, computer_ships>>
       /\ (~ShootStep /\ computer_field' # computer_field) =>
             /\ PlacesOneShip(computer_field, computer_field', computer_ships,
                              computer_ships')
             /\ UNCHANGED <<player_field, player_ships>>
       /\ (~ShootStep /\ (player_ships' # player_ships \/ inventory' # inventory)) =>
             player_field' # player_field
       /\ (~ShootStep /\ computer_ships' # computer_ships) =>
             computer_field' # computer_field]_vars

\* the player placed the four by hand and place_ships is at work on the rest
HandThenRandom ==
    /\ ~start
    /\ pc.at = "place_ships"
    /\ pc.who = "Player"
    /\ inventory = <<4, 3, 2, 0>>
    /\ player_ships = 5

\* the cells of field that are Water or an unfired segment and have no
\* destroyed segment within Chebyshev distance 1
OpenCells(field) ==
    {p \in Cells :
        /\ \A q \in Around(p) : IsShip(field, q) => ~field[q].destroyed
        /\ \/ field[p].kind = "Water"
           \/ IsShip(field, p) /\ ~field[p].fire}

\* C20: points holds just the cells of the player's grid that are Water or an
\* unfired segment and have no destroyed segment within Chebyshev distance 1,
\* each once; no Miss cell and no fired segment is in it.
CandidatesAreOpenCells ==
    LET points == Points(player_field)
        open == OpenCells(player_field)
    IN  /\ {points[i] : i \in DOMAIN points} = open
        /\ Len(points) = Cardinality(open)
        /\ \A i \in DOMAIN points :
              /\ player_field[points[i]].kind # "Miss"
              /\ IsShip(player_field, points[i]) => ~player_field[points[i]].fire

\* the computer is to pick with a sunk ship, a hit ship and a Miss on the
\* player's grid, and water beside the sunk ship
CandidatesWithSunkShip ==
    /\ ComputerToSelect
    /\ pc = Events
    /\ \E p \in Cells :
          /\ player_field[p].kind = "Water"
          /\ \E q \in Near(p) : IsShip(player_field, q) /\ player_field[q].destroyed
    /\ \E p \in Cells : IsShip(player_field, p) /\ player_field[p].fire
                        /\ ~player_field[p].destroyed
    /\ \E p \in Cells : player_field[p].kind = "Miss"

\* the step is a shot of the computer with this result
ComputerShot(result) ==
    /\ ShootStep
    /\ last_shot'.shooter = "Computer"
    /\ last_shot'.result = result

\* the cell the step shoots at
Target == <<last_shot'.x, last_shot'.y>>

\* C21: a shot of the computer at (x, y) that returns Hit under Random leaves
\* the tactics Scan with pos = (x, y) and one of the four directions.
HitUnderRandomStartsScan ==
    [][(ComputerShot("Hit") /\ enemy_ai.tactics.kind = "Random") =>
          /\ \E d \in Dirs : enemy_ai'.tactics = Scan(Target, d)
          /\ pc' = Events]_vars

\* the computer has just hit under Random and scans around the hit cell
ScanAroundFreshHit ==
    /\ enemy_ai.tactics.kind = "Scan"
    /\ last_shot = Shot("Computer", enemy_ai.tactics.pos[1], enemy_ai.tactics.pos[2], "Hit")
    /\ current_move = "Computer"
    /\ pc = Events

\* Up -> Right -> Down -> Left -> Up
Clockwise == [d \in Dirs |-> CASE d = "Up" -> "Right"
                               [] d = "Right" -> "Down"
                               [] d = "Down" -> "Left"
                               [] d = "Left" -> "Up"]

\* C22: a shot of the computer at pos + d that returns Miss under Scan{pos, ..}
\* leaves the tactics Scan{pos, clockwise(d)}.
MissUnderScanTurns ==
    [][(ComputerShot("Miss") /\ enemy_ai.tactics.kind = "Scan") =>
          \E d \in Dirs :
              /\ Target = Step(enemy_ai.tactics.pos, d)
              /\ enemy_ai'.tactics = Scan(enemy_ai.tactics.pos, Clockwise[d])]_vars

\* the computer has missed beside the cell it scans around, and has turned
ScanTurnedAfterMiss ==
    /\ enemy_ai.tactics.kind = "Scan"
    /\ last_shot.shooter = "Computer"
    /\ last_shot.result = "Miss"
    /\ current_move = "Player"
    /\ \E d \in Dirs :
          /\ <<last_shot.x, last_shot.y>> = Step(enemy_ai.tactics.pos, d)
          /\ enemy_ai.tactics.dir = Clockwise[d]

\* the first direction of d, clockwise(d), .. whose cell beside p is in the
\* grid and in points, or "none"
FirstOpenDir(points, p, d) ==
    LET turns == <<d, Clockwise[d], Clockwise[Clockwise[d]],
                   Clockwise[Clockwise[Clockwise[d]]]>>
        open == {i \in 1..4 : LET q == Step(p, turns[i])
                              IN  InGrid(q[1], q[2]) /\ Contains(points, q)}
    IN  IF open = {} THEN "none"
        ELSE turns[CHOOSE i \in open : \A j \in open : i <= j]

\* C23: a shot of the computer at (x, y) = pos + d that returns Hit under
\* Scan{pos, ..} leaves the tactics Line{pos, (x, y) + d', d'}, d' the first
\* of d, clockwise(d), .. whose cell (x, y) + d' is in the grid and in points.
HitUnderScanStartsLine ==
    [][(ComputerShot("Hit") /\ enemy_ai.tactics.kind = "Scan") =>
          \E d \in Dirs :
              /\ Target = Step(enemy_ai.tactics.pos, d)
              /\ LET first == FirstOpenDir(Points(player_field), Target, d)
                 IN  first # "none" =>
                        /\ enemy_ai'.tactics =
                              Line(enemy_ai.tactics.pos, Step(Target, first), first)
                        /\ pc' = Events]_vars

\* the computer has hit beside the cell it scanned around and goes on in a
\* direction across the one it came in
LineTurnedAtHit ==
    /\ enemy_ai.tactics.kind = "Line"
    /\ last_shot.shooter = "Computer"
    /\ last_shot.result = "Hit"
    /\ pc = Events
    /\ \E d \in Dirs :
          /\ <<last_shot.x, last_shot.y>> = Step(enemy_ai.tactics.start_pos, d)
          /\ enemy_ai.tactics.dir \notin {d, opposite(d)}
    /\ enemy_ai.tactics.current_pos =
          Step(<<last_shot.x, last_shot.y>>, enemy_ai.tactics.dir)

\* Up <-> Down, Left <-> Right
Opposite == [d \in Dirs |-> CASE d = "Up" -> "Down"
                              [] d = "Down" -> "Up"
                              [] d = "Left" -> "Right"
                              [] d = "Right" -> "Left"]

\* the Line the tactics t turn back to: from start_pos one step against dir
Reversed(t) == Line(t.start_pos, Step(t.start_pos, Opposite[t.dir]), Opposite[t.dir])

\* C24: a shot of the computer that returns Miss under Line{start_pos, ..,
\* dir} leaves Line{start_pos, start_pos + opposite(dir), opposite(dir)}.
MissUnderLineReverses ==
    [][(ComputerShot("Miss") /\ enemy_ai.tactics.kind = "Line") =>
          enemy_ai'.tactics = Reversed(enemy_ai.tactics)]_vars

\* C25: a shot of the computer that returns Hit under Line{start_pos,
\* current_pos, dir} moves current_pos one step along dir if that cell is in
\* the grid and in points, and else leaves Line{start_pos, start_pos +
\* opposite(dir), opposite(dir)}; start_pos stays.
HitUnderLineAdvances ==
    [][(ComputerShot("Hit") /\ enemy_ai.tactics.kind = "Line") =>
          LET t == enemy_ai.tactics
              next == Step(t.current_pos, t.dir)
          IN  IF InGrid(next[1], next[2]) /\ Contains(Points(player_field), next)
              THEN enemy_ai'.tactics = Line(t.start_pos, next, t.dir)
              ELSE enemy_ai'.tactics = Reversed(t)]_vars

\* the computer has hit along its line, found no way on, and has turned back
\* to the cell on the other side of start_pos
LineTurnedBackAtHit ==
    /\ enemy_ai.tactics.kind = "Line"
    /\ last_shot.shooter = "Computer"
    /\ last_shot.result = "Hit"
    /\ pc = Events
    /\ \E k \in 1..3 :
          <<last_shot.x, last_shot.y>> =
              <<enemy_ai.tactics.start_pos[1] - k * to_vec(enemy_ai.tactics.dir)[1],
                enemy_ai.tactics.start_pos[2] - k * to_vec(enemy_ai.tactics.dir)[2]>>
    /\ enemy_ai.tactics.current_pos = Step(enemy_ai.tactics.start_pos, enemy_ai.tactics.dir)

\* the computer has hit along its line and has gone one cell on
LineWentOnAtHit ==
    /\ enemy_ai.tactics.kind = "Line"
    /\ last_shot.shooter = "Computer"
    /\ last_shot.result = "Hit"
    /\ pc = Events
    /\ \E k \in 2..3 :
          <<last_shot.x, last_shot.y>> =
              <<enemy_ai.tactics.start_pos[1] + k * to_vec(enemy_ai.tactics.dir)[1],
                enemy_ai.tactics.start_pos[2] + k * to_vec(enemy_ai.tactics.dir)[2]>>
    /\ enemy_ai.tactics.current_pos = Step(<<last_shot.x, last_shot.y>>, enemy_ai.tactics.dir)

\* C26: a shot of the computer that returns Destroy leaves the tactics
\* Random, whatever they were.
DestroyResetsTactics ==
    [][ComputerShot("Destroy") => enemy_ai'.tactics = Random]_vars

\* the computer has just sunk a ship and has by now sunk ships of each length
SunkUnderEachTactic ==
    /\ last_shot.shooter = "Computer"
    /\ last_shot.result = "Destroy"
    /\ enemy_ai.tactics = Random
    /\ winner = "None"
    /\ \A n \in 1..4 : \E p \in Cells :
          /\ IsShip(player_field, p)
          /\ player_field[p].destroyed
          /\ ShipLength(player_field, p) = n

\* the cells of field that have been shot at
ShotCells(field) == {p \in Cells : IsShot(field[p])}

Masked(field) ==
    [p \in Cells |-> IF IsShip(field, p) /\ ~field[p].fire THEN Water ELSE field[p]]

\* C28: the view of the computer's grid (hidden) is the view of the same grid
\* with its unfired segments replaced by Water, and an unfired segment of
\* any shape is drawn as Water is; the view of the player's grid shows its
\* unfired segments.
HiddenViewMasksShips ==
    /\ FieldView(computer_field, TRUE) = FieldView(Masked(computer_field), TRUE)
    /\ \A d \in Dirs, f \in 0..3, b \in 0..3 :
          CellView(Ship(d, f, b, FALSE, FALSE), TRUE) = CellView(Water, TRUE)
    /\ \A p \in Cells :
          (IsShip(player_field, p) /\ ~player_field[p].fire) =>
              /\ FieldView(player_field, FALSE)[p] = "ship"
              /\ FieldView(player_field, FALSE)[p] # CellView(Water, FALSE)

\* the battle runs and both grids hold unfired, hit and sunk segments and a Miss
EveryViewOnBothGrids ==
    /\ start
    /\ \A field \in {player_field, computer_field} :
          /\ \E p \in Cells : IsShip(field, p) /\ ~field[p].fire
          /\ \E p \in Cells : IsShip(field, p) /\ field[p].fire /\ ~field[p].destroyed
          /\ \E p \in Cells : IsShip(field, p) /\ field[p].destroyed
          /\ \E p \in Cells : field[p].kind = "Miss"

\* C29: while there is no winner the computer does not keep the move for
\* ever: each state in which it has the move leads to one in which the player
\* has it or a winner is set.
ComputerTurnEnds ==
    ComputerToSelect ~> (current_move = "Player" \/ winner # "None")

\* C30: each cell the computer shoots at is in points, the list made for
\* that shot: not a Miss cell, not a fired segment, not beside a sunk ship.
ComputerShootsCandidates ==
    [][(ShootStep /\ last_shot'.shooter = "Computer") =>
          Contains(Points(player_field), Target)]_vars

\* the ships of a grid that are not destroyed
Afloat(field) ==
    Cardinality({p \in Cells : /\ IsShip(field, p)
                               /\ field[p].back = 0
                               /\ ~field[p].destroyed})

\* C31: player_ships is the number of ships on the player's grid that are not
\* destroyed and computer_ships that of the computer's grid, in every state;
\* no counter leaves 0..10, and a shot that returns Destroy takes one from
\* the counter of the side shot at, which was above 0, and leaves the other.
CountersAreShipsAfloat ==
    /\ [](/\ player_ships = Afloat(player_field)
          /\ computer_ships = Afloat(computer_field)
          /\ player_ships \in 0..10
          /\ computer_ships \in 0..10)
    /\ [][(ShootStep /\ last_shot'.result = "Destroy") =>
             IF last_shot'.shooter = "Computer"
             THEN /\ player_ships >= 1
                  /\ player_ships' = player_ships - 1
                  /\ computer_ships' = computer_ships
             ELSE /\ computer_ships >= 1
                  /\ computer_ships' = computer_ships - 1
                  /\ player_ships' = player_ships]_vars

\* a shot has just sunk a ship and both sides have lost ships and have some left
BothFleetsReduced ==
    /\ start
    /\ last_shot.result = "Destroy"
    /\ player_ships \in 1..9
    /\ computer_ships \in 1..9

\* the grid place_ships(who, ..) writes to
PlacedOn(who) == IF who = "Player" THEN player_field ELSE computer_field

\* there is a draw of place_ships that has_collision lets pass for this length
HasRoom(field, len) ==
    \E x \in Coords, y \in Coords, d \in Dirs : ~has_collision(field, x, y, len, d, FALSE)

\* C32: in every state inside place_ships there is an (x, y, direction) for
\* which has_collision is false for the current length, so that the loop can
\* place the ship and go on.
PlaceShipsHasRoom ==
    pc.at = "place_ships" => HasRoom(PlacedOn(pc.who), pc.length)

\* the grid of a side after the step
FieldAfter(side) == IF side = "Player" THEN player_field' ELSE computer_field'

\* the grid of a side before the step
FieldBefore(side) == IF side = "Player" THEN player_field ELSE computer_field

\* what shoot may do to the cell it is called on
TargetEffect(c, d) ==
    \/ d = c
    \/ c.kind = "Water" /\ d = Miss
    \/ /\ c.kind = "Ship" /\ ~c.fire
       /\ \/ d = [c EXCEPT !.fire = TRUE]
          \/ d = [c EXCEPT !.fire = TRUE, !.destroyed = TRUE]

\* the segments of a grid: where they are and their dir, front and back
Hull(field) ==
    [p \in {q \in Cells : IsShip(field, q)} |->
        <<field[p].dir, field[p].front, field[p].back>>]

\* C33: a shoot call that returns leaves the grid of the shooter as it was;
\* on the other grid the cell shot at goes from Water to Miss or from unfired
\* to fired or stays, any other cell that changes is a segment of the ship
\* shot at and only its destroyed flag is set; once the battle has begun the
\* segments of both grids keep their place, dir, front and back.
ShootTouchesTargetAndItsShip ==
    /\ [][(ShootStep /\ last_shot'.result \in ShootResults) =>
             LET side == Opponent(last_shot'.shooter)
                 old == FieldBefore(side)
                 new == FieldAfter(side)
             IN  /\ FieldAfter(last_shot'.shooter) = FieldBefore(last_shot'.shooter)
                 /\ TargetEffect(old[Target], new[Target])
                 /\ \A p \in Changed(old, new) \ {Target} :
                       /\ IsShip(old, Target)
                       /\ IsShip(old, p)
                       /\ p \in Extent(old, Target)
                       /\ new[p] = [old[p] EXCEPT !.destroyed = TRUE]]_vars
    /\ [][(start /\ pc = Events) =>
             /\ Hull(player_field') = Hull(player_field)
             /\ Hull(computer_field') = Hull(computer_field)]_vars

\* a shot has just sunk a ship of three or four: the segment shot at is fired
\* and the segments shot before it are marked destroyed with it
SankLongShip ==
    /\ last_shot.result = "Destroy"
    /\ ShipLength(FieldBefore(Opponent(last_shot.shooter)), <<last_shot.x, last_shot.y>>) >= 3

Targeted(t) == t.kind \in {"Scan", "Line"}

\* pos of Scan, start_pos of Line
TacticsOrigin(t) == IF t.kind = "Scan" THEN t.pos ELSE t.start_pos

\* C34: while the tactics are Scan or Line, pos (of Scan) or start_pos (of
\* Line) is a cell of the player's grid that holds a segment with fire set
\* and destroyed clear, and it is the same cell from one state to the next
\* as long as the tactics stay Scan or Line.
OriginIsOpenHit ==
    /\ [](Targeted(enemy_ai.tactics) =>
             LET o == TacticsOrigin(enemy_ai.tactics)
             IN  /\ InGrid(o[1], o[2])
                 /\ IsShip(player_field, o)
                 /\ player_field[o].fire
                 /\ ~player_field[o].destroyed)
    /\ [][(Targeted(enemy_ai.tactics) /\ Targeted(enemy_ai'.tactics)) =>
             TacticsOrigin(enemy_ai'.tactics) = TacticsOrigin(enemy_ai.tactics)]_vars

\* the computer has just missed under Line, which turned the line back to
\* the other side of start_pos, with two segments of the ship hit
LineBackAtOrigin ==
    /\ enemy_ai.tactics.kind = "Line"
    /\ last_shot.shooter = "Computer"
    /\ last_shot.result = "Miss"
    /\ \E p \in Cells : /\ p # enemy_ai.tactics.start_pos
                         /\ IsShip(player_field, p)
                         /\ player_field[p].fire
                         /\ ~player_field[p].destroyed

\* C35: whenever the player has the move the delay of the computer is
\* MOVE_DELAY: it is that at the start, the frame in which the computer
\* shoots sets it before the shot that may pass the move, and no step counts
\* it down unless the computer has the move; so each turn of the computer
\* begins with the whole delay ahead of its first shot.
DelayFullOnPlayersMove ==
    /\ [](current_move = "Player" => enemy_ai.delay = MOVE_DELAY * TicksPerUnit)
    /\ [][/\ (current_move = "Player" /\ current_move' = "Computer") =>
                enemy_ai'.delay = MOVE_DELAY * TicksPerUnit
          /\ enemy_ai'.delay # enemy_ai.delay => current_move = "Computer"]_vars

\* the computer has waited, shot at water and passed the move to the player
MovePassedAfterWait ==
    /\ start
    /\ winner = "None"
    /\ current_move = "Player"
    /\ last_shot.shooter = "Computer"
    /\ last_shot.result = "Miss"
    /\ player_ships < 10

\* C36: the selected length is one of 1..4 in every state, so that
\* inventory[length - 1] is an element of the inventory; once the battle has
\* begun no step changes the selected length or direction.
SelectionInRangeThenFrozen ==
    /\ [](length \in 1..4 /\ length \in DOMAIN inventory /\ dir \in Dirs)
    /\ [][start => (length' = length /\ dir' = dir)]_vars

\* the battle has begun with a selection made by key or wheel: a ship of one,
\* bow up, with some of the fleet placed by hand
BegunWithSelectionMade ==
    /\ start
    /\ pc = Events
    /\ length = 1
    /\ dir = "Up"
    /\ player_field[<<0, 0>>].kind = "Ship"

====
